---- MODULE Spec2Model ----
(***************************************************************************)
(* The Google Maps client of src/src/lib.rs as a state machine: the       *)
(* credential source, the construction of a GMapsClient<Invalidated>, the *)
(* consuming validate_api_key future, and the query futures that borrow a *)
(* GMapsClient<Validated>.  Every future suspends where the code awaits:  *)
(* once on reqwest::get and once on Response::json.                        *)
(***************************************************************************)
EXTENDS Integers, Sequences, FiniteSets, TLC

\* Longest value of GMAPS_API_KEY that is enumerated.
MaxKeyLen == 3
\* Number of query futures that may be in flight on the validated client.
MaxCalls == 2

VARIABLES
    env,          \* what env::var("GMAPS_API_KEY") yields once .env was parsed
    newResult,    \* what GMapsClient::new() gave its caller
    unvalidated,  \* the caller's binding of the GMapsClient<Invalidated>
    vcall,        \* the validate_api_key future
    validated,    \* the caller's binding of the GMapsClient<Validated>
    calls,        \* the query futures, one per call id
    wire          \* per call id, what the remote service delivered to it

vars == <<env, newResult, unvalidated, vcall, validated, calls, wire>>

(***************************************************************************)
(* Strings are sequences of characters, so that remove() has something to *)
(* take apart.                                                             *)
(***************************************************************************)
Quote == "\""
Chars == {Quote, "k"}
Strings(n) == UNION {[1..m -> Chars] : m \in 0..n}

NotPresent == [set |-> FALSE]
Present(s) == [set |-> TRUE, v |-> s]
EnvValues == {NotPresent} \cup {Present(s) : s \in Strings(MaxKeyLen)}

\* The build profiles: overflow checks on (debug) or off (release).
Builds == {"debug", "release"}

\* usize arithmetic.  TLC's integers are narrower than a 64-bit usize, so the
\* modulus is the one of a 16-bit target; all that the code depends on is that
\* the wrapped value lies beyond the end of every string.
UsizeModulus == 2 ^ 16
UsizeSub(a, b, profile) ==
    IF a >= b THEN [ok |-> TRUE, n |-> a - b]
    ELSE IF profile = "debug" THEN [ok |-> FALSE, n |-> 0]
    ELSE [ok |-> TRUE, n |-> (a - b) % UsizeModulus]

starts_with(s, c) == Len(s) > 0 /\ s[1] = c
ends_with(s, c) == Len(s) > 0 /\ s[Len(s)] = c

\* String::remove(idx), idx counted from 0: panics when idx is not in the string.
StringRemove(s, idx) ==
    IF idx < Len(s)
    THEN [ok |-> TRUE, s |-> SubSeq(s, 1, idx) \o SubSeq(s, idx + 2, Len(s))]
    ELSE [ok |-> FALSE, s |-> s]

Ok(key) == [kind |-> "Ok", key |-> key]
Err(e) == [kind |-> "Err", err |-> e]
Panic == [kind |-> "Panic"]
NoResult == [kind |-> "None"]

\* A mutant of LoadApiKey: trim_matches('"'), which trims every quote at either end.
RECURSIVE TrimQuotes(_)
TrimQuotes(s) ==
    IF starts_with(s, Quote) THEN TrimQuotes(Tail(s))
    ELSE IF ends_with(s, Quote) THEN TrimQuotes(SubSeq(s, 1, Len(s) - 1))
    ELSE s
LoadApiKeyTrimAll(e, profile) ==
    IF e.set THEN Ok(TrimQuotes(e.v)) ELSE Err("ApiKeyLoadingFailure")

\* load_api_key
LoadApiKey(e, profile) ==
    IF e.set
    THEN IF starts_with(e.v, Quote) /\ ends_with(e.v, Quote)
         THEN LET first == StringRemove(e.v, 0)
                  idx == UsizeSub(Len(first.s), 1, profile)
                  last == StringRemove(first.s, idx.n)
              IN IF first.ok /\ idx.ok /\ last.ok THEN Ok(last.s) ELSE Panic
         ELSE Ok(e.v)
    ELSE Err("ApiKeyLoadingFailure")

BaseUrl == "https://maps.googleapis.com/"

NoClient == [state |-> "None"]
Moved == [state |-> "Moved"]
Client(marker, api_key, base_url) ==
    [state |-> "Live", marker |-> marker, api_key |-> api_key, base_url |-> base_url]

\* A mutant of CanQuery: the query methods sit in a generic impl<T> block.
CanQueryAnyMarker(cl) == cl.state = "Live"

\* impl GMapsClient<Validated>: the receiver type of the query methods.
CanQuery(cl) == cl.state = "Live" /\ cl.marker = "Validated"

\* impl GMapsClient<Invalidated>: the receiver type of validate_api_key.
CanValidate(cl) == cl.state = "Live" /\ cl.marker = "Invalidated"

ClientsInScope == {cl \in {unvalidated, validated} : cl.state = "Live"}

(***************************************************************************)
(* serde_json::Value, and the bodies the remote service may send.          *)
(***************************************************************************)
JNull == [t |-> "null"]
JStr(s) == [t |-> "string", s |-> s]
JArr(a) == [t |-> "array", a |-> a]
JObj(f) == [t |-> "object", f |-> f]

\* value["key"]: Null when value is no object or has no such key.
Index(v, key) == IF v.t = "object" /\ key \in DOMAIN v.f THEN v.f[key] ELSE JNull
\* value[i], i counted from 0: Null when value is no array or is too short.
IndexAt(v, i) == IF v.t = "array" /\ (i + 1) \in DOMAIN v.a THEN v.a[i + 1] ELSE JNull

BodyOk == "{\"status\":\"OK\"}"
BodyZeroResults == "{\"status\":\"ZERO_RESULTS\"}"
BodyDenied == "{\"status\":\"REQUEST_DENIED\"}"
BodyPizza == "{\"results\":[{\"name\":\"Pizza Party\"}]}"
BodyHtml == "<html>502 Bad Gateway</html>"
Bodies == {BodyOk, BodyZeroResults, BodyDenied, BodyPizza, BodyHtml}

Decoded(doc) == [ok |-> TRUE, doc |-> doc]
Undecodable == [ok |-> FALSE, doc |-> JNull]

\* Response::json::<serde_json::Value>() on a body that was read.
ParseJson(body) ==
    CASE body = BodyOk -> Decoded(JObj([status |-> JStr("OK")]))
      [] body = BodyZeroResults -> Decoded(JObj([status |-> JStr("ZERO_RESULTS")]))
      [] body = BodyDenied -> Decoded(JObj([status |-> JStr("REQUEST_DENIED")]))
      [] body = BodyPizza ->
            Decoded(JObj([results |-> JArr(<<JObj([name |-> JStr("Pizza Party")])>>)]))
      [] OTHER -> Undecodable

\* What one connection has delivered: the outcome of the GET, then of the body read.
Pending == [get |-> "pending", read |-> "pending", body |-> ""]
GetOutcomes == {"ok", "error"}
BodyDeliveries ==
    {[read |-> "error", body |-> ""]} \cup {[read |-> "ok", body |-> b] : b \in Bodies}

Value(doc) == [kind |-> "Value", doc |-> doc]

(***************************************************************************)
(* Construction.                                                           *)
(***************************************************************************)
IdleValidate ==
    [pc |-> "idle", self |-> NoClient, url |-> <<>>, net |-> Pending, result |-> NoResult]
IdleCall == [pc |-> "idle", op |-> "", self |-> NoClient, url |-> <<>>, ret |-> NoResult]

CallIds == 1..MaxCalls

Init ==
    /\ env \in EnvValues
    /\ newResult = NoResult
    /\ unvalidated = NoClient
    /\ vcall = IdleValidate
    /\ validated = NoClient
    /\ calls = [c \in CallIds |-> IdleCall]
    /\ wire = [c \in CallIds |-> Pending]

\* GMapsClient::new(): load_api_key()? twice, then the struct literal.
NewOutcome(e, profile) ==
    LET first == LoadApiKey(e, profile)
        second == LoadApiKey(e, profile)
    IN IF first.kind # "Ok" THEN first
       ELSE IF second.kind # "Ok" THEN second
       ELSE [kind |-> "Ok", client |-> Client("Invalidated", second.key, BaseUrl)]

\* The caller binds the client of an Ok; the crate is built under either profile.
New ==
    /\ newResult.kind = "None"
    /\ \E profile \in Builds : newResult' = NewOutcome(env, profile)
    /\ unvalidated' = IF newResult'.kind = "Ok" THEN newResult'.client ELSE unvalidated
    /\ UNCHANGED <<env, vcall, validated, calls, wire>>

(***************************************************************************)
(* validate_api_key(self).                                                 *)
(***************************************************************************)
ProbeText == "bosfor alba"
FindPlacePath == "/maps/api/place/findplacefromtext/json?input="
FindPlaceParams ==
    "&inputtype=textquery&fields=name,place_id,geometry,formatted_address&locationbias=point:50,10&key="

ValidateUrl(self) == <<BaseUrl, FindPlacePath, ProbeText, FindPlaceParams, self.api_key>>

\* A mutant of RequestDenied: anything but "OK" counts as a denial.
RequestDeniedUnlessOk(doc) == Index(doc, "status") # JStr("OK")

\* response["status"] == json!("REQUEST_DENIED")
RequestDenied(doc) == Index(doc, "status") = JStr("REQUEST_DENIED")

\* A mutant of DecodeFailure: an undecodable body is reported as a bad key.
DecodeFailureAsInvalidKey == Err("InvalidApiKey")

\* .map_err(|_| GMapsClientError::RequestFailure)? on the GET and on the decoding.
TransportFailure == Err("RequestFailure")
DecodeFailure == Err("RequestFailure")

\* A mutant of ValidatedFrom: the credential is not carried over.
ValidatedFromDefault(self) == Client("Validated", <<>>, self.base_url)

\* Ok(GMapsClient { api_key: self.api_key, base_url: self.base_url, state: PhantomData })
ValidatedFrom(self) == Client("Validated", self.api_key, self.base_url)

\* The call: self moves into the future, the URL is built, the GET is issued.
ValidateCall ==
    /\ CanValidate(unvalidated)
    /\ vcall.pc = "idle"
    /\ vcall' = [vcall EXCEPT !.pc = "get", !.self = unvalidated,
                              !.url = ValidateUrl(unvalidated)]
    /\ unvalidated' = Moved
    /\ UNCHANGED <<env, newResult, validated, calls, wire>>

\* reqwest::get(url).await.map_err(..)?
ValidateGet ==
    /\ vcall.pc = "get"
    /\ \E o \in GetOutcomes :
          vcall' = IF o = "ok"
                   THEN [vcall EXCEPT !.pc = "json", !.net.get = o]
                   ELSE [vcall EXCEPT !.pc = "done", !.net.get = o,
                                      !.result = TransportFailure]
    /\ UNCHANGED <<env, newResult, unvalidated, validated, calls, wire>>

ValidateResult(self, d) ==
    LET parsed == IF d.read = "ok" THEN ParseJson(d.body) ELSE Undecodable
    IN IF ~parsed.ok THEN DecodeFailure
       ELSE IF RequestDenied(parsed.doc) THEN Err("InvalidApiKey")
       ELSE [kind |-> "Ok", client |-> ValidatedFrom(self)]

\* .json::<serde_json::Value>().await.map_err(..)?, the status check, the return;
\* the caller binds the client of an Ok.
ValidateJson ==
    /\ vcall.pc = "json"
    /\ \E d \in BodyDeliveries :
          vcall' = [vcall EXCEPT !.pc = "done", !.net.read = d.read, !.net.body = d.body,
                                 !.result = ValidateResult(vcall.self, d)]
    /\ validated' = IF vcall'.result.kind = "Ok" THEN vcall'.result.client ELSE validated
    /\ UNCHANGED <<env, newResult, unvalidated, calls, wire>>

(***************************************************************************)
(* find_single_place_from_text(&self, place) and                           *)
(* find_places_from_text(&self, query).                                    *)
(***************************************************************************)
Places == {"bosfor alba"}
Queries == {"pizza party alba iulia"}
Radius == 5000
TextSearchPath == "/maps/api/place/textsearch/json?query="

FindSingleUrl(self, place) ==
    <<self.base_url, FindPlacePath, place, FindPlaceParams, self.api_key>>
FindPlacesUrl(self, query) ==
    <<self.base_url, TextSearchPath, query, "&radius=", Radius, "&key=", self.api_key>>

FindSinglePlaceFromText(c, place) ==
    /\ calls[c].pc = "idle"
    /\ \E cl \in ClientsInScope :
          /\ CanQuery(cl)
          /\ calls' = [calls EXCEPT ![c] =
                 [pc |-> "get", op |-> "find_single_place_from_text", self |-> cl,
                  url |-> FindSingleUrl(cl, place), ret |-> NoResult]]
    /\ UNCHANGED <<env, newResult, unvalidated, vcall, validated, wire>>

FindPlacesFromText(c, query) ==
    /\ calls[c].pc = "idle"
    /\ \E cl \in ClientsInScope :
          /\ CanQuery(cl)
          /\ calls' = [calls EXCEPT ![c] =
                 [pc |-> "get", op |-> "find_places_from_text", self |-> cl,
                  url |-> FindPlacesUrl(cl, query), ret |-> NoResult]]
    /\ UNCHANGED <<env, newResult, unvalidated, vcall, validated, wire>>

\* A mutant of QueryFailure: unwrap_or_default() in place of unwrap().
QueryFailureAsNull == Value(JNull)

\* .unwrap() on an Err: the future panics and returns nothing.
QueryFailure == Panic

\* A mutant of QueryReturn: only the results member is handed back.
QueryReturnResults(doc) == Value(Index(doc, "results"))

\* `response`: the decoded document, as it is.
QueryReturn(doc) == Value(doc)

\* A mutant of ResponseBody: every call reads the body of one shared connection.
ResponseBodyShared(c, w) == w[1].body

\* The body read from the connection that this call's reqwest::get opened.
ResponseBody(c, w) == w[c].body

Finished(call, ret) ==
    [call EXCEPT !.pc = IF ret.kind = "Panic" THEN "panicked" ELSE "done", !.ret = ret]

\* reqwest::get(url).await.unwrap()
QueryGet(c) ==
    /\ calls[c].pc = "get"
    /\ \E o \in GetOutcomes :
          /\ wire' = [wire EXCEPT ![c].get = o]
          /\ calls' = [calls EXCEPT ![c] =
                 IF o = "ok" THEN [@ EXCEPT !.pc = "json"] ELSE Finished(@, QueryFailure)]
    /\ UNCHANGED <<env, newResult, unvalidated, vcall, validated>>

\* .json::<serde_json::Value>().await.unwrap(), then the return of the document.
QueryJson(c) ==
    /\ calls[c].pc = "json"
    /\ \E d \in BodyDeliveries :
          /\ wire' = [wire EXCEPT ![c].read = d.read, ![c].body = d.body]
          /\ LET parsed == IF d.read = "ok" THEN ParseJson(ResponseBody(c, wire'))
                           ELSE Undecodable
             IN calls' = [calls EXCEPT ![c] =
                    Finished(@, IF parsed.ok THEN QueryReturn(parsed.doc) ELSE QueryFailure)]
    /\ UNCHANGED <<env, newResult, unvalidated, vcall, validated>>

Next ==
    \/ New
    \/ ValidateCall
    \/ ValidateGet
    \/ ValidateJson
    \/ \E c \in CallIds, place \in Places : FindSinglePlaceFromText(c, place)
    \/ \E c \in CallIds, query \in Queries : FindPlacesFromText(c, query)
    \/ \E c \in CallIds : QueryGet(c)
    \/ \E c \in CallIds : QueryJson(c)

Spec == Init /\ [][Next]_vars

(***************************************************************************)
(* The properties.                                                         *)
(***************************************************************************)
Delivered(net) == net.get = "ok" /\ net.read = "ok"
DecodesAsJson(net) == Delivered(net) /\ ParseJson(net.body).ok
StatusOf(net) == Index(ParseJson(net.body).doc, "status")

\* C1: a query is only ever invoked on the client that validate_api_key returned
\* as Ok; a Validated client exists only after a validate_api_key call on an
\* unvalidated client with the same credential completed with Ok; and no step
\* turns a Validated client back into an unvalidated one.
C1_ValidatedGate ==
    /\ [](\A c \in CallIds :
             calls[c].pc # "idle" =>
                 /\ vcall.pc = "done" /\ vcall.result.kind = "Ok"
                 /\ calls[c].self = vcall.result.client
                 /\ calls[c].self.marker = "Validated")
    /\ [](validated.state = "Live" =>
             /\ validated.marker = "Validated"
             /\ vcall.pc = "done" /\ vcall.result.kind = "Ok"
             /\ vcall.self.state = "Live" /\ vcall.self.marker = "Invalidated"
             /\ vcall.self.api_key = validated.api_key)
    /\ [][validated.state = "Live" =>
             validated' = validated /\ unvalidated'.state # "Live"]_vars
C1_Witness ==
    \E c \in CallIds : calls[c].pc = "done" /\ calls[c].self = validated

\* C2: validate_api_key returns Ok exactly when the GET succeeds, the body decodes
\* as JSON and the document's status is not "REQUEST_DENIED"; "OK", "ZERO_RESULTS"
\* and a document without status all yield Ok.
C2_ValidateOkIff ==
    vcall.pc = "done" =>
        /\ vcall.result.kind = "Ok" <=>
              (DecodesAsJson(vcall.net) /\ StatusOf(vcall.net) # JStr("REQUEST_DENIED"))
        /\ (Delivered(vcall.net) /\ vcall.net.body \in {BodyOk, BodyZeroResults, BodyPizza})
              => vcall.result.kind = "Ok"
C2_Witness ==
    vcall.pc = "done" /\ vcall.result.kind = "Ok" /\ vcall.net.body = BodyPizza

\* C3: a failed validate_api_key gives RequestFailure exactly when the GET or the
\* decoding failed and InvalidApiKey exactly when the decoded status is
\* "REQUEST_DENIED"; no Validated client is produced and the unvalidated client
\* is gone.
C3_ValidateErrorKinds ==
    (vcall.pc = "done" /\ vcall.result.kind # "Ok") =>
        /\ vcall.result.kind = "Err"
        /\ vcall.result.err \in {"RequestFailure", "InvalidApiKey"}
        /\ vcall.result.err = "RequestFailure" <=> ~DecodesAsJson(vcall.net)
        /\ vcall.result.err = "InvalidApiKey" <=>
              (DecodesAsJson(vcall.net) /\ StatusOf(vcall.net) = JStr("REQUEST_DENIED"))
        /\ validated.state = "None"
        /\ unvalidated.state = "Moved"
C3_Witness ==
    /\ vcall.pc = "done" /\ vcall.result.kind = "Err"
    /\ vcall.result.err = "RequestFailure"
    /\ Delivered(vcall.net) /\ vcall.net.body = BodyHtml

\* C4: the Validated client of a successful validate_api_key holds the api_key
\* and the base_url of the unvalidated client that the call consumed.
C4_ValidatePreservesFields ==
    (vcall.pc = "done" /\ vcall.result.kind = "Ok") =>
        /\ validated = vcall.result.client
        /\ validated.state = "Live"
        /\ validated.api_key = vcall.self.api_key
        /\ validated.base_url = vcall.self.base_url
        /\ newResult.kind = "Ok" /\ vcall.self = newResult.client
C4_Witness ==
    /\ vcall.pc = "done" /\ vcall.result.kind = "Ok"
    /\ validated.state = "Live" /\ validated.api_key = <<"k", Quote>>

\* C5: a value wrapped in a pair of double quotes is loaded as its inner
\* substring, exactly one quote removed at each end; a value that does not both
\* start and end with a double quote is loaded unchanged.
C5_QuoteStripping ==
    newResult.kind = "Ok" =>
        LET v == env.v
            n == Len(v)
            key == newResult.client.api_key
        IN /\ env.set
           /\ (n >= 2 /\ v[1] = Quote /\ v[n] = Quote) => key = SubSeq(v, 2, n - 1)
           /\ (n = 0 \/ v[1] # Quote \/ v[n] # Quote) => key = v
C5_Witness ==
    /\ newResult.kind = "Ok"
    /\ env = Present(<<Quote, Quote, Quote>>)
    /\ newResult.client.api_key = <<Quote>>

\* C6: new (with load_api_key) and validate_api_key return Ok or Err for every
\* value of the credential source and every outcome of the network call; they
\* never panic.
C6_NoPanic ==
    /\ newResult.kind \in {"None", "Ok", "Err"}
    /\ vcall.result.kind \in {"None", "Ok", "Err"}

\* C7: when the GET or the decoding fails inside a query, the call hands no
\* value and no error to its caller: it panics.
C7_QueryFailurePanics ==
    \A c \in CallIds :
        (calls[c].pc # "idle" /\ wire[c].get # "pending"
            /\ (wire[c].get = "error" \/ wire[c].read # "pending")
            /\ ~DecodesAsJson(wire[c]))
        => calls[c].pc = "panicked" /\ calls[c].ret.kind = "Panic"
C7_Witness ==
    \E c \in CallIds :
        /\ calls[c].pc = "panicked"
        /\ Delivered(wire[c]) /\ wire[c].body = BodyHtml

\* C8: a query hands back exactly the document that its response decodes to,
\* no member inspected or changed: a results[0].name of "Pizza Party" stays
\* "Pizza Party", and a status of "REQUEST_DENIED" is returned like any other.
C8_QueryReturnsDocument ==
    \A c \in CallIds :
        /\ DecodesAsJson(wire[c]) =>
              /\ calls[c].pc = "done"
              /\ calls[c].ret.kind = "Value"
              /\ calls[c].ret.doc = ParseJson(wire[c].body).doc
        /\ (calls[c].pc = "done" /\ wire[c].body = BodyPizza) =>
              Index(IndexAt(Index(calls[c].ret.doc, "results"), 0), "name")
                  = JStr("Pizza Party")
        /\ (calls[c].pc = "done" /\ wire[c].body = BodyDenied) =>
              Index(calls[c].ret.doc, "status") = JStr("REQUEST_DENIED")
C8_Witness ==
    \E c \in CallIds :
        /\ calls[c].pc = "done" /\ wire[c].body = BodyPizza
        /\ calls[c].op = "find_places_from_text"

\* C9: the credential of every constructed client, unvalidated or validated,
\* has length at least 1.
C9_CredentialNonEmpty ==
    \A cl \in ClientsInScope : Len(cl.api_key) >= 1

\* C10: under every interleaving of the steps of the query calls on one
\* Validated client, the client's fields stay as they are, a step of one call
\* touches no other call, and each finished call returns the document of the
\* response on its own connection.
C10_CallsIndependent ==
    /\ [](\A c \in CallIds :
             /\ calls[c].pc # "idle" => calls[c].self = validated
             /\ calls[c].pc = "done" =>
                   calls[c].ret = Value(ParseJson(wire[c].body).doc))
    /\ [][validated.state = "Live" => validated' = validated]_vars
    /\ [][\A c \in CallIds :
             (calls'[c] # calls[c] \/ wire'[c] # wire[c]) =>
                 \A d \in CallIds \ {c} : calls'[d] = calls[d] /\ wire'[d] = wire[d]]_vars
C10_Witness ==
    \E c, d \in CallIds :
        /\ c # d
        /\ calls[c].pc = "done" /\ calls[d].pc = "done"
        /\ wire[c].body = BodyPizza /\ wire[d].body = BodyDenied

====
